---- MODULE Spec2Model ----
(***************************************************************************)
(* The substitute assignment engine (class SubstituteManager): loadData,   *)
(* autoAssignSubstitutes with its period resolver, and the persistence of  *)
(* assignments, logs and warnings.                                         *)
(*                                                                         *)
(* Strings that the code trims, lower-cases or compares (teacher names,    *)
(* phones, weekdays, class names) are sequences of one-character strings,  *)
(* so that the conversions are computed.  Log actions, statuses and error  *)
(* causes are tags.                                                        *)
(***************************************************************************)
EXTENDS Integers, Sequences, FiniteSets, TLC

VARIABLES
    env,                 \* which family of inputs the environment supplies
    runsLeft,            \* number of runs the caller still starts
    pc,                  \* position of the autoAssignSubstitutes invocation
    schedule,            \* this.schedule: day -> period -> teachers
    teacherClasses,      \* this.teacherClasses: teacher -> entries
    substitutes,         \* this.substitutes: name -> phone
    allTeachers,         \* this.allTeachers
    timetableFile,       \* data/timetable_file.csv, as loadData read it
    teachersFile,        \* data/total_teacher.json, as the run read it
    schedulesFile,       \* data/teacher_schedules.json, as the run read it
    date,                \* parameter date
    absentTeacherNames,  \* parameter absentTeacherNames
    day,                 \* local day
    schedules,           \* local schedules (declared schedules)
    availableSubstitutes,\* local availableSubstitutes
    workloadMap,         \* local workloadMap: phone -> count
    assignedPeriodsMap,  \* local assignedPeriodsMap: phone -> set of periods
    ti,                  \* index of the absent teacher being processed
    periods,             \* local periods of the teacher being processed
    pi,                  \* index of the period being processed
    logs,                \* local logs
    assignments,         \* local assignments
    warnings,            \* local warnings
    error,               \* the error caught by the try block
    result,              \* the value returned to the caller
    assignmentsFile,     \* data/assigned_teacher.json
    logsFile,            \* data/substitute_logs.json
    logsArchive,         \* data/old_logs/substitute_logs_<today>.json
    warningsFile,        \* data/substitute_warnings.json
    loadsLeft,           \* number of loadData calls the caller still makes
    lpc,                 \* position of the loadData invocation
    substitutesFile,     \* data/Substitude_file.csv
    timetableBak,        \* data/timetable_file.csv.bak
    substitutesBak,      \* data/Substitude_file.csv.bak
    fixedContent,        \* local fixedContent of loadData
    parseCalls,          \* the contents handed to the parsers in this loadData call
    mode,                \* the invocation that is running: alone, or the first or second of two that overlap
    suspended,           \* the invocation that waits at its await, if there is one
    returned,            \* the invocations that have returned, with what they returned
    input,               \* the argument of a call of fixCSVContent or normalizeName
    output               \* what the call returns

vars == <<env, runsLeft, pc, schedule, teacherClasses, substitutes, allTeachers,
          timetableFile, teachersFile, schedulesFile, date, absentTeacherNames, day, schedules, availableSubstitutes,
          workloadMap, assignedPeriodsMap, ti, periods, pi, logs, assignments,
          warnings, error, result, assignmentsFile, logsFile, logsArchive,
          warningsFile, loadsLeft, lpc, substitutesFile, timetableBak, substitutesBak,
          fixedContent, parseCalls, mode, suspended, returned, input, output>>

engineVars == <<schedule, teacherClasses, substitutes, timetableFile>>
inputVars == <<teachersFile, schedulesFile>>
fileVars == <<assignmentsFile, logsFile, logsArchive, warningsFile>>
loaderVars == <<loadsLeft, lpc, substitutesFile, timetableBak, substitutesBak, fixedContent,
                parseCalls>>
callVars == <<input, output>>
callerVars == <<mode, suspended, returned>>

-----------------------------------------------------------------------------
(* Bounds of the model *)

\* periods of the longest timetable of the input family
MaxPeriods == 7
\* records in a teacher directory file
MaxTeachers == 2
\* names in an absent list
MaxAbsent == 2
\* runs in a sequence of runs
MaxRuns == 2
\* loadData calls in a sequence of loads
MaxLoads == 2
\* lines of a content given to fixCSVContent
MaxLines == 2
\* characters of a name given to normalizeName
MaxNameLen == 5

(* Program constants *)

MAX_DAILY_WORKLOAD == 6
DefaultGradeLevel == 10
MAX_SUBSTITUTE_ASSIGNMENTS == 3

-----------------------------------------------------------------------------
(* Strings *)

UpperChars == <<"A","B","C","D","E","F","G","H","I","J","K","L","M",
                "N","O","P","Q","R","S","T","U","V","W","X","Y","Z">>
LowerChars == <<"a","b","c","d","e","f","g","h","i","j","k","l","m",
                "n","o","p","q","r","s","t","u","v","w","x","y","z">>

\* the tables of toLowerCase and toUpperCase on the letters
LowerTable ==
    [c \in {UpperChars[i] : i \in 1..26} |-> LowerChars[CHOOSE i \in 1..26 : UpperChars[i] = c]]
UpperTable ==
    [c \in {LowerChars[i] : i \in 1..26} |-> UpperChars[CHOOSE i \in 1..26 : LowerChars[i] = c]]

LowerChar(c) == IF c \in DOMAIN LowerTable THEN LowerTable[c] ELSE c
UpperChar(c) == IF c \in DOMAIN UpperTable THEN UpperTable[c] ELSE c

IsSpace(c) == c \in {" ", "\t"}

ToLowerCase(s) == [i \in 1..Len(s) |-> LowerChar(s[i])]
ToUpperCase(s) == [i \in 1..Len(s) |-> UpperChar(s[i])]

RECURSIVE TrimStart(_)
TrimStart(s) ==
    IF s # <<>> /\ IsSpace(Head(s)) THEN TrimStart(Tail(s)) ELSE s

RECURSIVE TrimEnd(_)
TrimEnd(s) ==
    IF s # <<>> /\ IsSpace(s[Len(s)]) THEN TrimEnd(SubSeq(s, 1, Len(s) - 1)) ELSE s

Trim(s) == TrimEnd(TrimStart(s))

\* String.prototype.includes
Includes(s, sub) ==
    \E i \in 1..(Len(s) - Len(sub) + 1) : SubSeq(s, i, i + Len(sub) - 1) = sub

\* replace(/\s\s/g, ' '): a collapse of pairs, which leaves the third of three
RECURSIVE CollapseSpaces_Pairwise(_)
CollapseSpaces_Pairwise(s) ==
    IF s = <<>> THEN <<>>
    ELSE IF Len(s) >= 2 /\ IsSpace(s[1]) /\ IsSpace(s[2])
         THEN <<" ">> \o CollapseSpaces_Pairwise(Tail(Tail(s)))
         ELSE <<Head(s)>> \o CollapseSpaces_Pairwise(Tail(s))

\* replace(/\s+/g, ' ')
RECURSIVE CollapseSpaces(_)
CollapseSpaces(s) ==
    IF s = <<>> THEN <<>>
    ELSE IF IsSpace(Head(s))
         THEN <<" ">> \o CollapseSpaces(TrimStart(s))
         ELSE <<Head(s)>> \o CollapseSpaces(Tail(s))

normalizeName(name) == CollapseSpaces(ToLowerCase(Trim(name)))

dayMap ==
    (<<"m","o","n">> :> <<"m","o","n","d","a","y">>) @@
    (<<"t","u","e">> :> <<"t","u","e","s","d","a","y">>) @@
    (<<"w","e","d">> :> <<"w","e","d","n","e","s","d","a","y">>) @@
    (<<"t","h","u">> :> <<"t","h","u","r","s","d","a","y">>) @@
    (<<"f","r","i">> :> <<"f","r","i","d","a","y">>) @@
    (<<"s","a","t">> :> <<"s","a","t","u","r","d","a","y">>) @@
    (<<"s","u","n">> :> <<"s","u","n","d","a","y">>)

normalizeDay(d) ==
    LET normalized == ToLowerCase(Trim(d))
        shortDay == SubSeq(normalized, 1, IF Len(normalized) < 3 THEN Len(normalized) ELSE 3)
    IN IF shortDay \in DOMAIN dayMap THEN dayMap[shortDay] ELSE normalized

days == << <<"S","u","n","d","a","y">>, <<"M","o","n","d","a","y">>,
           <<"T","u","e","s","d","a","y">>, <<"W","e","d","n","e","s","d","a","y">>,
           <<"T","h","u","r","s","d","a","y">>, <<"F","r","i","d","a","y">>,
           <<"S","a","t","u","r","d","a","y">> >>

classes == << <<"1","0","A">>, <<"1","0","B">>, <<"1","0","C">>,
              <<"9","A">>, <<"9","B">>, <<"9","C">>,
              <<"8","A">>, <<"8","B">>, <<"8","C">>,
              <<"7","A">>, <<"7","B">>, <<"7","C">>,
              <<"6","A">>, <<"6","B">>, <<"6","C">> >>

\* Map.get(key) || dflt
Get(m, k, dflt) == IF k \in DOMAIN m THEN m[k] ELSE dflt

\* Map.set(key, value)
Put(m, k, v) == [x \in (DOMAIN m) \cup {k} |-> IF x = k THEN v ELSE m[x]]

EmptyMap == [x \in {} |-> 0]

-----------------------------------------------------------------------------
(* parseInt on a trimmed token: an optional sign, then the leading digits *)

DigitChars == <<"0","1","2","3","4","5","6","7","8","9">>

IsDigit(c) == \E i \in 1..10 : DigitChars[i] = c
DigitValue(c) == (CHOOSE i \in 1..10 : DigitChars[i] = c) - 1

RECURSIVE DigitsPrefix(_)
DigitsPrefix(s) ==
    IF s # <<>> /\ IsDigit(Head(s)) THEN <<Head(s)>> \o DigitsPrefix(Tail(s)) ELSE <<>>

RECURSIVE DigitsValue(_)
DigitsValue(ds) ==
    IF ds = <<>> THEN 0 ELSE 10 * DigitsValue(SubSeq(ds, 1, Len(ds) - 1)) + DigitValue(ds[Len(ds)])

Unsigned(s) == IF s # <<>> /\ Head(s) \in {"+", "-"} THEN Tail(s) ELSE s

ParseIntIsNaN(s) == DigitsPrefix(Unsigned(TrimStart(s))) = <<>>

ParseInt(s) ==
    LET t == TrimStart(s)
        v == DigitsValue(DigitsPrefix(Unsigned(t)))
    IN IF t # <<>> /\ Head(t) = "-" THEN 0 - v ELSE v

-----------------------------------------------------------------------------
(* loadData: the timetable and the substitute roster.  A file is the       *)
(* sequence of its non-blank lines, a line the sequence of its             *)
(* comma-separated fields.                                                 *)

EmptyCell == <<"e","m","p","t","y">>

Quote == "\""

\* line 228: the number of quote characters of a line
RECURSIVE QuoteCount(_)
QuoteCount(line) ==
    IF line = <<>> THEN 0
    ELSE Len(SelectSeq(Head(line), LAMBDA c : c = Quote)) + QuoteCount(Tail(line))

\* line 230: line.replace(/"/g, '')
RemoveQuotes(line) ==
    [i \in 1..Len(line) |-> SelectSeq(line[i], LAMBDA c : c # Quote)]

\* line 234: line.startsWith('Day,Period')
StartsWithDayPeriod(line) ==
    /\ Len(line) >= 2
    /\ line[1] = <<"D","a","y">>
    /\ Len(line[2]) >= 6
    /\ SubSeq(line[2], 1, 6) = <<"P","e","r","i","o","d">>

\* line 242: line.trim() is not empty
NotBlank(line) == Len(line) > 1 \/ Trim(line[1]) # <<>>

\* lines 227-248: the repair of one line
FixLine(line) ==
    LET unquoted == IF QuoteCount(line) % 2 # 0 THEN RemoveQuotes(line) ELSE line
        expectedColumns == IF StartsWithDayPeriod(unquoted) THEN 17 ELSE 3
        commaCount == Len(unquoted) - 1
    IN IF commaCount > expectedColumns - 1
       THEN SubSeq(unquoted, 1, expectedColumns)
       ELSE IF commaCount < expectedColumns - 1 /\ NotBlank(unquoted)
            THEN unquoted \o [k \in 1..(expectedColumns - 1 - commaCount) |-> <<>>]
            ELSE unquoted

\* lines 224-252, on the lines of the content
fixCSVContent(content) == [i \in 1..Len(content) |-> FixLine(content[i])]

\* line 255: the lines of the content that are not blank
NonBlankLines(content) == SelectSeq(content, NotBlank)

\* lines 273-286: the entries pushed for the teachers of one row
RECURSIVE AddTeacherClasses(_, _, _, _, _)
AddTeacherClasses(tc, teachers, idx, d, period) ==
    IF idx > Len(teachers) THEN tc
    ELSE LET teacher == teachers[idx]
             entry == [day |-> d, period |-> period, className |-> classes[idx],
                       originalTeacher |-> teacher, substitute |-> <<>>]
         IN IF idx <= Len(classes)
            THEN AddTeacherClasses(Put(tc, teacher, Append(Get(tc, teacher, <<>>), entry)),
                                   teachers, idx + 1, d, period)
            ELSE AddTeacherClasses(tc, teachers, idx + 1, d, period)

\* lines 266-268: the non-empty cells of a row, normalized
RowTeachers(cols) ==
    LET cells == SubSeq(cols, 3, Len(cols))
        Keep(t) == t # <<>> /\ ToLowerCase(Trim(t)) # EmptyCell
        kept == SelectSeq(cells, Keep)
    IN [i \in 1..Len(kept) |-> normalizeName(kept[i])]

\* lines 258-287: rows after the header, onto the maps of the engine
RECURSIVE ParseTimetableRows(_, _, _, _)
ParseTimetableRows(rows, i, sched, tc) ==
    IF i > Len(rows) THEN [schedule |-> sched, teacherClasses |-> tc]
    ELSE LET cols == rows[i]
         IN IF Len(cols) < 2 \/ ParseIntIsNaN(Trim(cols[2]))
            THEN ParseTimetableRows(rows, i + 1, sched, tc)
            ELSE LET d == normalizeDay(cols[1])
                     period == ParseInt(Trim(cols[2]))
                     teachers == RowTeachers(cols)
                     sched2 == Put(sched, d, Put(Get(sched, d, EmptyMap), period, teachers))
                 IN ParseTimetableRows(rows, i + 1, sched2,
                                       AddTeacherClasses(tc, teachers, 1, d, period))

parseTimetable(rows, sched, tc) == ParseTimetableRows(rows, 2, sched, tc)

RECURSIVE parseSubstitutes(_, _)
parseSubstitutes(lines, subs) ==
    IF lines = <<>> THEN subs
    ELSE LET items == [i \in 1..Len(Head(lines)) |-> Trim(Head(lines)[i])]
             name == IF Len(items) >= 1 THEN items[1] ELSE <<>>
             phone == IF Len(items) >= 2 THEN items[2] ELSE <<>>
         IN parseSubstitutes(Tail(lines),
                             IF name # <<>> THEN Put(subs, normalizeName(name), phone) ELSE subs)


-----------------------------------------------------------------------------
(* Period resolver *)

Log(action, status, details) == [action |-> action, status |-> status, details |-> details]

Mushtaque == <<"m","u","s","h","t","a","q","u","e">>
Mushtaq == <<"m","u","s","h","t","a","q">>
Tuesday == <<"t","u","e","s","d","a","y">>

Period(p, c, src) == [period |-> p, className |-> c, source |-> src]

\* the special case with one period less
specialPeriods_WithoutLast ==
    << Period(1, classes[2], "special:timetable"), Period(2, classes[2], "special:timetable") >>

specialPeriods == << Period(1, classes[2], "special:timetable"),
                     Period(2, classes[2], "special:timetable"),
                     Period(8, classes[1], "special:timetable") >>

\* this.timetable is assigned only by loadTimetable, which nothing calls
timetable == <<>>

\* lines 705-736; an entry is a parsed row [Day, Teacher, Period, cells]
findPeriodsInTimetable(teacherName, d) ==
    LET prefix == SubSeq(teacherName, 1, IF Len(teacherName) < 5 THEN Len(teacherName) ELSE 5)
        Hit(e) == /\ ToLowerCase(e.Day) = d
                  /\ Includes(ToLowerCase(e.Teacher), prefix)
                  /\ ~ParseIntIsNaN(e.Period)
        hits == SelectSeq(timetable, Hit)
        RECURSIVE Scan(_, _)
        Scan(i, k) ==
            IF i > Len(hits) THEN <<>>
            ELSE IF k > Len(classes) THEN Scan(i + 1, 1)
            ELSE (IF hits[i].cells[k] # <<>> /\ Includes(ToLowerCase(hits[i].cells[k]), prefix)
                  THEN <<Period(ParseInt(hits[i].Period), classes[k], "timetable")>>
                  ELSE <<>>) \o Scan(i, k + 1)
    IN Scan(1, 1)

\* lines 739-752
findTeacherByName(name, teachers) ==
    LET normalized == Trim(ToLowerCase(name))
        Match(t) == \/ Trim(ToLowerCase(t.name)) = normalized
                    \/ \E v \in 1..Len(t.variations) :
                          Trim(ToLowerCase(t.variations[v])) = normalized
        found == SelectSeq(teachers, Match)
    IN found

\* lines 623-629 and 648-654: the entries of one declared schedule on the day
DeclaredPeriods(entries, cleanDay, src) ==
    LET OnDay(e) == ToLowerCase(e.day) = cleanDay
        sel == SelectSeq(entries, OnDay)
    IN [i \in 1..Len(sel) |->
          Period(sel[i].period, ToUpperCase(Trim(sel[i].className)), src)]

\* lines 645-657
RECURSIVE VariationPeriods(_, _, _)
VariationPeriods(variations, scheds, cleanDay) ==
    IF variations = <<>> THEN <<>>
    ELSE DeclaredPeriods(Get(scheds, Trim(ToLowerCase(Head(variations))), <<>>),
                         cleanDay, "variation")
         \o VariationPeriods(Tail(variations), scheds, cleanDay)

IsSpecial(src) == src = "special:timetable"

\* the deduplication with the later entry of a key replacing the earlier, unless the
\* earlier is special
RECURSIVE Deduplicate_LastWins(_, _)
Deduplicate_LastWins(ps, acc) ==
    IF ps = <<>> THEN acc
    ELSE LET p == Head(ps)
             Same(q) == q.period = p.period /\ q.className = p.className
         IN IF \E i \in 1..Len(acc) : Same(acc[i])
            THEN Deduplicate_LastWins(Tail(ps),
                    [i \in 1..Len(acc) |->
                        IF Same(acc[i]) /\ ~IsSpecial(acc[i].source) THEN p ELSE acc[i]])
            ELSE Deduplicate_LastWins(Tail(ps), Append(acc, p))

\* lines 689-697: Map keyed by period-className, in insertion order
RECURSIVE Deduplicate(_, _)
Deduplicate(ps, acc) ==
    IF ps = <<>> THEN acc
    ELSE LET p == Head(ps)
             Same(q) == q.period = p.period /\ q.className = p.className
             has == \E i \in 1..Len(acc) : Same(acc[i])
         IN IF ~has
            THEN Deduplicate(Tail(ps), Append(acc, p))
            ELSE IF IsSpecial(p.source)
                 THEN Deduplicate(Tail(ps),
                                  [i \in 1..Len(acc) |-> IF Same(acc[i]) THEN p ELSE acc[i]])
                 ELSE Deduplicate(Tail(ps), acc)

\* lines 565-703: the periods and the log entries of one resolution
getAllPeriodsForTeacherWithDiagnostics(teacherName, d, scheds, tc, teachers) ==
    LET cleanName == Trim(ToLowerCase(teacherName))
        cleanDay == Trim(ToLowerCase(d))
        isSpecialName == Includes(cleanName, Mushtaque) \/ Includes(cleanName, Mushtaq)
        entries == Get(tc, cleanName, <<>>)
        OnDay(e) == ToLowerCase(e.day) = cleanDay
        onDay == SelectSeq(entries, OnDay)
        classMapPeriods == [i \in 1..Len(onDay) |->
                              Period(onDay[i].period, onDay[i].className, "classMap")]
        schedulePeriods == DeclaredPeriods(Get(scheds, cleanName, <<>>), cleanDay, "schedule")
        found == findTeacherByName(teacherName, teachers)
        hasVariations == found # <<>> /\ found[1].variations # <<>>
        variationPeriods == IF hasVariations
                            THEN VariationPeriods(found[1].variations, scheds, cleanDay)
                            ELSE <<>>
        merged == classMapPeriods \o schedulePeriods \o variationPeriods
        timetablePeriods == findPeriodsInTimetable(cleanName, cleanDay)
        allPeriods == IF merged = <<>> THEN timetablePeriods ELSE merged
        Valid(p) == p.period > 0 /\ p.className # <<>>
        uniquePeriods == Deduplicate(SelectSeq(allPeriods, Valid), <<>>)
        specialLogs == IF isSpecialName THEN <<Log("SpecialCase", "info", "")>> ELSE <<>>
    IN IF isSpecialName /\ cleanDay = Tuesday
       THEN [periods |-> specialPeriods, validPeriods |-> <<>>,
             logs |-> <<Log("NameProcessing", "info", "")>> \o specialLogs
                      \o <<Log("SpecialCaseSuccess", "info", "")>>]
       ELSE [periods |-> uniquePeriods, validPeriods |-> SelectSeq(allPeriods, Valid),
             logs |-> <<Log("NameProcessing", "info", "")>> \o specialLogs
                      \o <<Log("ClassMapLookup", "info", ""),
                           Log("ClassMapProcessing", "info", ""),
                           Log("ScheduleAnalysis", "info", "")>>
                      \o (IF hasVariations
                          THEN <<Log("VariationCheck", "info", ""),
                                 Log("VariationResults", "info", "")>>
                          ELSE <<>>)
                      \o (IF merged = <<>>
                          THEN <<Log("TimetableLookup", "info", "")>>
                               \o (IF timetablePeriods # <<>>
                                   THEN <<Log("TimetableFound", "info", "")>> ELSE <<>>)
                          ELSE <<>>)
                      \o <<Log("FinalResult", "info", "")>>]


-----------------------------------------------------------------------------
(* Allocation *)

\* lines 443-454
checkAvailability(sub, period, d, scheds) ==
    LET sched == Get(scheds, ToLowerCase(sub.name), <<>>)
    IN ~\E i \in 1..Len(sched) :
          ToLowerCase(sched[i].day) = ToLowerCase(d) /\ sched[i].period = period

\* the filter without the check of the periods already assigned
IsAvailableForPeriod_NoPeriodCheck(sub, period, wl, ap, d, scheds) ==
    /\ Get(wl, sub.phone, 0) < MAX_DAILY_WORKLOAD
    /\ checkAvailability(sub, period, d, scheds)

\* the filter with the workload compared by > instead of >=
IsAvailableForPeriod_CapOffByOne(sub, period, wl, ap, d, scheds) ==
    /\ period \notin Get(ap, sub.phone, {})
    /\ Get(wl, sub.phone, 0) <= MAX_DAILY_WORKLOAD
    /\ checkAvailability(sub, period, d, scheds)

\* the filter with the grade test of findSuitableSubstitutes (lines 481-485) for a
\* class of grade 10
IsAvailableForPeriod_GradeAware(sub, period, wl, ap, d, scheds) ==
    /\ period \notin Get(ap, sub.phone, {})
    /\ Get(wl, sub.phone, 0) < MAX_DAILY_WORKLOAD
    /\ checkAvailability(sub, period, d, scheds)
    /\ sub.gradeLevel >= 10

\* the filter without the workload check
IsAvailableForPeriod_NoWorkloadCheck(sub, period, wl, ap, d, scheds) ==
    /\ period \notin Get(ap, sub.phone, {})
    /\ checkAvailability(sub, period, d, scheds)

\* lines 370-381: the filter on one substitute
IsAvailableForPeriod(sub, period, wl, ap, d, scheds) ==
    /\ period \notin Get(ap, sub.phone, {})
    /\ Get(wl, sub.phone, 0) < MAX_DAILY_WORKLOAD
    /\ checkAvailability(sub, period, d, scheds)

AvailableForPeriod(subs, period, wl, ap, d, scheds) ==
    LET Ok(sub) == IsAvailableForPeriod(sub, period, wl, ap, d, scheds)
    IN SelectSeq(subs, Ok)

\* lines 389-391: Array.prototype.sort is stable; insertion of each element
\* after the elements that do not compare greater
RECURSIVE InsertByWorkload(_, _, _)
InsertByWorkload(sorted, sub, wl) ==
    IF sorted = <<>> THEN <<sub>>
    ELSE IF Get(wl, Head(sorted).phone, 0) - Get(wl, sub.phone, 0) > 0
         THEN <<sub>> \o sorted
         ELSE <<Head(sorted)>> \o InsertByWorkload(Tail(sorted), sub, wl)

RECURSIVE SortByWorkload(_, _, _)
SortByWorkload(cands, wl, acc) ==
    IF cands = <<>> THEN acc
    ELSE SortByWorkload(Tail(cands), wl, InsertByWorkload(acc, Head(cands), wl))

\* the first candidate, without the sort
SelectLeastLoaded_Unsorted(cands, wl) == cands[1]

SelectLeastLoaded(cands, wl) == SortByWorkload(cands, wl, <<>>)[1]

\* an assignment that names the absent teacher by the lower-cased, trimmed name
SubstituteAssignment_CleanName(teacherName, p, selected) ==
    [originalTeacher |-> Trim(ToLowerCase(teacherName)), period |-> p.period,
     className |-> p.className, substitute |-> selected.name,
     substitutePhone |-> selected.phone]

\* lines 394-400
SubstituteAssignment(teacherName, p, selected) ==
    [originalTeacher |-> teacherName, period |-> p.period, className |-> p.className,
     substitute |-> selected.name, substitutePhone |-> selected.phone]

\* the warning strings of lines 361, 384 and 434, by their parts
Warning(kind, teacherName, d, period, cause) ==
    [kind |-> kind, teacher |-> teacherName, day |-> d, period |-> period, cause |-> cause]

\* the warning with the lower-cased, trimmed name in place of the name as given
NoPeriodsWarning_CleanName(teacherName, d) ==
    Warning("NoPeriods", Trim(ToLowerCase(teacherName)), d, 0, "")

NoPeriodsWarning(teacherName, d) == Warning("NoPeriods", teacherName, d, 0, "")
\* the warning of an uncovered period, worded as the warning of a teacher without periods
NoSubstituteWarning_AsNoPeriods(teacherName, period) ==
    Warning("NoPeriods", teacherName, <<>>, period, "")

NoSubstituteWarning(teacherName, period) == Warning("NoSubstitute", teacherName, <<>>, period, "")
ErrorWarning(cause) == Warning("Error", <<>>, <<>>, 0, cause)

\* lines 501-504
createSubstituteArray(teachers) ==
    LET HasPhone(t) == t.phone # <<>> /\ Trim(t.phone) # <<>>
    IN SelectSeq(teachers, HasPhone)

\* lines 815-821: defaults of a teacher record (gradeLevel 0 stands for a missing one)
ProcessedTeachers(teachers) ==
    [i \in 1..Len(teachers) |->
        [name |-> teachers[i].name, phone |-> teachers[i].phone,
         gradeLevel |-> IF teachers[i].gradeLevel = 0 THEN DefaultGradeLevel
                        ELSE teachers[i].gradeLevel,
         variations |-> teachers[i].variations]]

-----------------------------------------------------------------------------
(* Verification *)

\* line 147: this.substituteAssignments is read by verifySubstituteLimits and emptied
\* by clearAssignments; nothing puts an entry into it
substituteAssignments == <<>>

\* lines 929-939
verifySubstituteLimits ==
    LET violations == {sub \in DOMAIN substituteAssignments :
                          Len(substituteAssignments[sub]) > MAX_SUBSTITUTE_ASSIGNMENTS}
    IN [check |-> "Substitute Assignment Limits",
        status |-> IF violations = {} THEN "PASS" ELSE "FAIL"]

-----------------------------------------------------------------------------
(* Persistence *)

\* a save that adds the list to what the file holds
AssignmentsFileContent_Appended(as) ==
    assignmentsFile \o
    [i \in 1..Len(as) |->
        [originalTeacher |-> as[i].originalTeacher, period |-> as[i].period,
         className |-> as[i].className, substitute |-> as[i].substitute,
         substitutePhone |-> as[i].substitutePhone]]

\* lines 889-897
AssignmentsFileContent(as) ==
    [i \in 1..Len(as) |->
        [originalTeacher |-> as[i].originalTeacher,
         period |-> IF as[i].period = 0 THEN 0 ELSE as[i].period,
         className |-> as[i].className,
         substitute |-> as[i].substitute,
         substitutePhone |-> as[i].substitutePhone]]

\* a save that does not look at the list
ShouldSave_Always(as) == TRUE

\* line 418: the assignments are saved when there is at least one
ShouldSave(as) == Len(as) > 0

\* a logs file that keeps the entries of the other dates
NewLogsFile_Merged(old, lg, d) == Put(old, d, lg)

\* lines 1068-1079: the content written to the logs file
NewLogsFile(old, lg, d) == Put(EmptyMap, d, lg)

\* lines 1043-1055: the archive takes the content the logs file had
NewLogsArchive(archive, old) == IF DOMAIN old # {} THEN old ELSE archive

\* a warnings file that holds the entry of the run alone
NewWarningsFile_Fresh(old, ws, d) == Put(EmptyMap, d, ws)

\* lines 1089-1124
NewWarningsFile(old, ws, d) == Put(old, d, ws)


-----------------------------------------------------------------------------
(* The inputs the environment supplies *)

Smith == <<"S","m","i","t","h">>
Jones == <<"J","o","n","e","s">>
Ghost == <<"G","h","o","s","t">>
Doe == <<"D","o","e">>
Roe == <<"R","o","e">>
Monday == <<"M","o","n","d","a","y">>
Phone1 == <<"5","5","5","-","1","1","1","1">>
Phone2 == <<"5","5","5","-","2","2","2","2">>
\* a teacher name with a space in it, the same with two, an alias of it, and a
\* substitute name with a space after it
AB == <<"A"," ","B">>
ABWide == <<"A"," "," ","B">>
Abe == <<"A","b","e">>
DoeSp == <<"D","o","e"," ">>

\* a teacher name that has the special-cased substring, and the day of the special case
SirMushtaque == <<"S","i","r"," ","M","u","s","h","t","a","q","u","e">>
TuesdayCell == <<"T","u","e","s","d","a","y">>

\* the lists of at most n elements of S, none of them listed twice
SeqsUpTo(S, n) ==
    {s \in UNION {[1..k -> S] : k \in 0..n} :
        \A i, j \in DOMAIN s : s[i] = s[j] => i = j}

TeacherRecord(name, phone) ==
    [name |-> name, phone |-> phone, gradeLevel |-> 0, variations |-> <<>>]

TeacherRecords ==
    {TeacherRecord(Doe, Phone1), TeacherRecord(Doe, Phone2),
     TeacherRecord(Roe, Phone2), TeacherRecord(Roe, <<>>)}

\* the record of a teacher who is no substitute and has an alias
ABRecord == [name |-> AB, phone |-> <<>>, gradeLevel |-> 0, variations |-> <<Abe>>]

\* data/total_teacher.json: missing, unparsable, or a list of records
TeacherFiles(e) ==
    CASE e = "single" ->
           {[status |-> "missing", teachers |-> <<>>], [status |-> "corrupt", teachers |-> <<>>]}
           \cup {[status |-> "ok", teachers |-> ts] : ts \in SeqsUpTo(TeacherRecords, MaxTeachers)}
      [] e = "multi" ->
           {[status |-> "corrupt", teachers |-> <<>>],
            [status |-> "ok", teachers |-> <<TeacherRecord(Doe, Phone1)>>]}
      [] e = "grades" ->
           {[status |-> "ok",
             teachers |-> <<[TeacherRecord(Doe, Phone1) EXCEPT !.gradeLevel = g1],
                            [TeacherRecord(Roe, Phone2) EXCEPT !.gradeLevel = g2]>>] :
               g1, g2 \in {0, 7, 9}}
      [] e = "overlap" ->
           {[status |-> "ok",
             teachers |-> <<TeacherRecord(Doe, Phone1), TeacherRecord(Roe, Phone2)>>]}
      [] e = "staff" ->
           {[status |-> "ok",
             teachers |-> <<TeacherRecord(Smith, Phone1), TeacherRecord(Jones, Phone2)>>],
            [status |-> "ok",
             teachers |-> <<TeacherRecord(Jones, Phone1),
                            [name |-> SirMushtaque, phone |-> <<>>, gradeLevel |-> 0,
                             variations |-> <<Abe>>]>>]}
      [] OTHER ->
           {[status |-> "ok", teachers |-> <<ABRecord, TeacherRecord(Doe, Phone1)>>],
            [status |-> "ok", teachers |-> <<ABRecord, TeacherRecord(DoeSp, Phone1)>>]}

DeclaredEntry(d, p, c) == [day |-> d, period |-> p, className |-> c]

\* data/teacher_schedules.json: missing, unparsable, or a mapping name -> entries
ScheduleFiles(e) ==
    CASE e = "single" ->
           {[status |-> "missing", map |-> EmptyMap],
            [status |-> "corrupt", map |-> EmptyMap],
            [status |-> "ok",
             map |-> (ToLowerCase(Doe) :> <<DeclaredEntry(Monday, 1, classes[1])>>)
                     @@ (ToLowerCase(Smith) :> <<DeclaredEntry(Monday, 2, <<"1","0","b"," ">>)>>)]}
      [] e \in {"multi", "grades", "overlap"} -> {[status |-> "missing", map |-> EmptyMap]}
      [] e = "staff" ->
           {[status |-> "missing", map |-> EmptyMap],
            [status |-> "ok",
             map |-> (ToLowerCase(SirMushtaque) :>
                         <<DeclaredEntry(TuesdayCell, 4, <<"9","a">>),
                           DeclaredEntry(Monday, 2, <<"1","0","b">>)>>)
                     @@ (ToLowerCase(Abe) :>
                         <<DeclaredEntry(Monday, 3, <<"1","0","c">>),
                           DeclaredEntry(TuesdayCell, 5, <<"9","b">>)>>)]}
      [] OTHER ->
           {[status |-> "missing", map |-> EmptyMap],
            [status |-> "ok",
             map |-> (ToLowerCase(Doe) :> <<DeclaredEntry(Monday, 1, classes[1])>>)
                     @@ (ToLowerCase(AB) :> <<DeclaredEntry(Monday, 1, <<"1","0","a">>),
                                              DeclaredEntry(Monday, 2, <<"1","0","b">>)>>)
                     @@ (ToLowerCase(Abe) :> <<DeclaredEntry(Monday, 2, <<"1","0","B"," ">>),
                                               DeclaredEntry(Monday, 3, <<"1","0","c">>)>>)]}

Header == <<<<"D","a","y">>, <<"P","e","r","i","o","d">>>> \o classes

\* the row of period p: Smith teaches the first a periods, Jones the first b
TimetableRow(p, a, b) ==
    <<Monday, <<DigitChars[p + 1]>>,
      IF p <= a THEN Smith ELSE EmptyCell,
      IF p <= b THEN Jones ELSE EmptyCell>>
    \o [k \in 1..(Len(classes) - 2) |-> EmptyCell]

TimetableFile(a, b) ==
    <<Header>> \o [p \in 1..(IF a > b THEN a ELSE b) |-> TimetableRow(p, a, b)]

\* a timetable of one row: period 1, the first class column empty, A B in the second
ShiftedTimetable ==
    <<Header,
      <<Monday, <<"1">>, EmptyCell, AB>> \o [k \in 1..(Len(classes) - 2) |-> EmptyCell]>>

\* a timetable in which the special-cased teacher has a class on Monday and one on
\* Tuesday
StaffTimetable ==
    <<Header,
      <<Monday, <<"1">>, Smith, Jones, SirMushtaque>>
         \o [k \in 1..(Len(classes) - 3) |-> EmptyCell],
      <<TuesdayCell, <<"3">>, SirMushtaque>> \o [k \in 1..(Len(classes) - 1) |-> EmptyCell]>>

\* data/timetable_file.csv
TimetableFiles(e) ==
    CASE e = "single" -> {TimetableFile(1, 1), TimetableFile(MaxPeriods, 1)}
      [] e \in {"multi", "grades", "overlap"} -> {TimetableFile(1, 1)}
      [] e = "staff" -> {StaffTimetable}
      [] OTHER -> {ShiftedTimetable}

\* data/Substitude_file.csv
RosterFiles(e) == {<<<<Doe, Phone1>>>>}

\* a date string with what new Date(date).getDay() gives for it
Date(s, valid, n) == [s |-> s, valid |-> valid, getDay |-> n]

Dates(e) ==
    CASE e = "multi" ->
           {Date("2024-01-01", TRUE, 1), Date("2024-01-08", TRUE, 1), Date("not-a-date", FALSE, 0)}
      [] e = "staff" ->
           {Date("2024-01-01", TRUE, 1), Date("2024-01-02", TRUE, 2), Date("not-a-date", FALSE, 0)}
      [] OTHER -> {Date("2024-01-01", TRUE, 1), Date("not-a-date", FALSE, 0)}

AbsentLists(e) ==
    CASE e = "single" -> SeqsUpTo({Smith, Jones, Ghost}, MaxAbsent) \cup {<<Smith, Smith>>}
      [] e = "multi" -> {<<Smith>>, <<Ghost>>, <<Smith, Jones>>}
      [] e = "grades" -> {<<Smith>>, <<Smith, Jones>>}
      [] e = "overlap" -> {<<Smith>>, <<Jones>>, <<Ghost>>}
      [] e = "staff" -> {<<Smith>>, <<SirMushtaque>>, <<SirMushtaque, Smith>>, <<Jones, Smith>>}
      [] OTHER -> {<<AB>>, <<ABWide>>, <<AB, ABWide>>, <<ABWide, AB>>, <<Abe>>, <<AB, Abe>>}

\* a timetable row with an unbalanced quote
QuotedRow ==
    <<Monday, <<"1">>, <<Quote>> \o Smith, Jones>> \o [k \in 1..(Len(classes) - 2) |-> EmptyCell]

\* data/timetable_file.csv in a sequence of loads: well-formed, with an unbalanced
\* quote, with a short row
TimetableContents ==
    {TimetableFile(1, 1), <<Header, QuotedRow>>, <<Header, <<Monday, <<"1">>>>, <<<<>>>>>>}

\* data/Substitude_file.csv in a sequence of loads
SubstitutesContents ==
    {<<<<Doe, Phone1>>>>, <<<<Doe, Phone1, <<>>>>, <<Roe, Phone2, <<>>>>>>,
     <<<<<<Quote>> \o Doe, Phone1, <<>>>>>>}

\* the lines of the contents given to fixCSVContent
CsvLines ==
    {Header, TimetableRow(1, 1, 1), QuotedRow, <<Monday, <<"1">>>>,
     <<Doe, Phone1, <<>>>>, <<Doe, Phone1>>, <<<<Quote>> \o Doe, Phone1, <<>>>>,
     <<<<Quote>> \o Doe \o <<Quote>>, Phone1, <<>>>>, <<Doe, Phone1, <<>>, <<>>>>, <<<<>>>>,
     <<Doe, Phone1, <<Quote>>, <<Quote>>>>}

CsvContents == UNION {[1..k -> CsvLines] : k \in 1..MaxLines}

NameChars == {" ", "\t", "a", "B"}

NameStrings == UNION {[1..k -> NameChars] : k \in 0..MaxNameLen}

NoInput == [fn |-> "none", content |-> <<>>, name |-> <<>>]
NoOutput == [returned |-> FALSE, content |-> <<>>, name |-> <<>>]

\* the calls of the pure functions
CallInputs(e) ==
    IF e = "call"
    THEN {[fn |-> "fixCSVContent", content |-> c, name |-> <<>>] : c \in CsvContents}
         \cup {[fn |-> "normalizeName", content |-> <<>>, name |-> n] : n \in NameStrings}
    ELSE {NoInput}

-----------------------------------------------------------------------------
(* The engine *)

NoParseCalls == [timetable |-> <<>>, substitutes |-> <<>>]

NoResult == [assignments |-> <<>>, warnings |-> <<>>, logs |-> <<>>]

InitWith(e, n) ==
    /\ env = e
    /\ runsLeft = n
    /\ pc = "idle"
    /\ schedule = EmptyMap
    /\ teacherClasses = EmptyMap
    /\ substitutes = EmptyMap
    /\ allTeachers = <<>>
    /\ timetableFile = <<>>
    /\ teachersFile = [status |-> "missing", teachers |-> <<>>]
    /\ schedulesFile = [status |-> "missing", map |-> EmptyMap]
    /\ date = Date("", FALSE, 0)
    /\ absentTeacherNames = <<>>
    /\ day = <<>>
    /\ schedules = EmptyMap
    /\ availableSubstitutes = <<>>
    /\ workloadMap = EmptyMap
    /\ assignedPeriodsMap = EmptyMap
    /\ ti = 0
    /\ periods = <<>>
    /\ pi = 0
    /\ logs = <<>>
    /\ assignments = <<>>
    /\ warnings = <<>>
    /\ error = ""
    /\ result = NoResult
    /\ assignmentsFile = <<>>
    /\ logsFile = EmptyMap
    /\ logsArchive = EmptyMap
    /\ warningsFile = EmptyMap
    /\ loadsLeft = IF e = "load" THEN MaxLoads ELSE 0
    /\ lpc = "idle"
    /\ substitutesFile = <<>>
    /\ timetableBak = <<>>
    /\ substitutesBak = <<>>
    /\ fixedContent = <<>>
    /\ parseCalls = NoParseCalls
    /\ mode = "alone"
    /\ suspended = <<>>
    /\ returned = <<>>
    /\ input \in CallInputs(e)
    /\ output = NoOutput

Init == InitWith("single", 1)

InitRuns == InitWith("multi", MaxRuns)

InitNames == InitWith("names", 1)

runVars == <<date, absentTeacherNames, day, schedules, availableSubstitutes, workloadMap,
             assignedPeriodsMap, ti, periods, pi, logs, assignments, warnings, error>>

\* the input families in which the invocations that have returned are kept
HistoryEnvs == {"grades", "overlap"}

\* the invocation that is running has returned: its parameters, what it read, what it
\* returned
Finished ==
    [mode |-> mode, date |-> date, absentTeacherNames |-> absentTeacherNames,
     teachers |-> teachersFile.teachers, schedules |-> schedulesFile,
     teacherClasses |-> teacherClasses, error |-> error, result |-> result]

\* line 331: the invocation that is running is at its await, the files read
AtAwait ==
    \/ pc = "teacher" /\ ti = 1
    \/ pc = "catch" /\ error \in {"Error loading teachers", "Error loading schedules"}

\* an invocation that reached its await after another did continues after that one
MustYield ==
    /\ suspended # <<>>
    /\ AtAwait
    /\ mode = "second"
    /\ suspended[1].mode = "first"

\* lines 157-221, for files that exist
LoadData ==
    /\ pc \in {"idle", "done"}
    /\ suspended = <<>>
    /\ substitutes = EmptyMap
    /\ \E tt \in TimetableFiles(env), roster \in RosterFiles(env) :
          LET parsed == parseTimetable(tt, schedule, teacherClasses)
          IN /\ timetableFile' = tt
             /\ schedule' = parsed.schedule
             /\ teacherClasses' = parsed.teacherClasses
             /\ substitutes' = parseSubstitutes(roster, substitutes)
    /\ pc' = "idle"
    /\ UNCHANGED <<loaderVars, callVars, callerVars, env, runsLeft, allTeachers, inputVars, runVars, result, fileVars>>

\* lines 302-324: the call and the first log entry
StartRun ==
    /\ pc \in {"idle", "done"}
    /\ suspended = <<>>
    /\ runsLeft > 0
    /\ \E d \in Dates(env), names \in AbsentLists(env) :
          /\ date' = d
          /\ absentTeacherNames' = names
    /\ runsLeft' = runsLeft - 1
    /\ mode' = "alone"
    /\ returned' = IF pc = "done" /\ env \in HistoryEnvs THEN Append(returned, Finished)
                   ELSE returned
    /\ logs' = <<Log("ProcessStart", "info", "")>>
    /\ assignments' = <<>>
    /\ warnings' = <<>>
    /\ day' = <<>>
    /\ schedules' = EmptyMap
    /\ availableSubstitutes' = <<>>
    /\ workloadMap' = EmptyMap
    /\ assignedPeriodsMap' = EmptyMap
    /\ ti' = 0
    /\ periods' = <<>>
    /\ pi' = 0
    /\ error' = ""
    /\ pc' = "getDay"
    /\ UNCHANGED <<loaderVars, callVars, suspended, env, engineVars, allTeachers, inputVars, result, fileVars>>

\* lines 327-328 and 799-803: days[NaN] is undefined, and toLowerCase throws on it
GetDay ==
    /\ pc = "getDay"
    /\ IF date.valid
       THEN /\ day' = ToLowerCase(days[date.getDay + 1])
            /\ logs' = Append(logs, Log("DayCalculation", "info", ""))
            /\ error' = error
            /\ pc' = "load"
       ELSE /\ error' = "TypeError"
            /\ pc' = "catch"
            /\ UNCHANGED <<day, logs>>
    /\ UNCHANGED <<loaderVars, callVars, callerVars, env, runsLeft, engineVars, allTeachers, inputVars, date, absentTeacherNames,
                   schedules, availableSubstitutes, workloadMap, assignedPeriodsMap,
                   ti, periods, pi, assignments, warnings, result, fileVars>>

\* lines 331-344 with loadTeachers (805-830) and loadSchedules (832-844)
LoadFiles ==
    /\ pc = "load"
    /\ \E tf \in TeacherFiles(env), sf \in ScheduleFiles(env) :
          LET teachers == IF tf.status = "ok" THEN ProcessedTeachers(tf.teachers) ELSE <<>>
          IN /\ teachersFile' = tf
             /\ schedulesFile' = sf
             /\ allTeachers' = IF tf.status = "ok" THEN teachers ELSE allTeachers
             /\ IF tf.status = "corrupt" \/ sf.status = "corrupt"
                THEN /\ error' = IF tf.status = "corrupt" THEN "Error loading teachers"
                                 ELSE "Error loading schedules"
                     /\ pc' = "catch"
                     /\ UNCHANGED <<schedules, availableSubstitutes, ti, logs>>
                ELSE /\ schedules' = sf.map
                     /\ availableSubstitutes' = createSubstituteArray(teachers)
                     /\ logs' = Append(logs, Log("DataLoading", "info", ""))
                     /\ ti' = 1
                     /\ error' = error
                     /\ pc' = "teacher"
    /\ workloadMap' = EmptyMap
    /\ assignedPeriodsMap' = EmptyMap
    /\ UNCHANGED <<loaderVars, callVars, callerVars, env, runsLeft, engineVars, date, absentTeacherNames, day, periods, pi,
                   assignments, warnings, result, fileVars>>


\* lines 347-365: one absent teacher, up to the loop over the periods
ProcessTeacher ==
    /\ pc = "teacher"
    /\ ~MustYield
    /\ ti <= Len(absentTeacherNames)
    /\ LET teacherName == absentTeacherNames[ti]
           cleanTeacherName == Trim(ToLowerCase(teacherName))
           r == getAllPeriodsForTeacherWithDiagnostics(cleanTeacherName, day, schedules,
                                                       teacherClasses, allTeachers)
           resolved == <<Log("TeacherProcessing", "info", "")>> \o r.logs
       IN IF Len(r.periods) = 0
          THEN /\ warnings' = Append(warnings, NoPeriodsWarning(teacherName, day))
               /\ logs' = logs \o resolved
               /\ ti' = ti + 1
               /\ UNCHANGED <<pc, periods, pi>>
          ELSE /\ logs' = logs \o resolved \o <<Log("PeriodsFound", "info", "")>>
               /\ periods' = r.periods
               /\ pi' = 1
               /\ pc' = "period"
               /\ UNCHANGED <<warnings, ti>>
    /\ UNCHANGED <<loaderVars, callVars, callerVars, env, runsLeft, engineVars, allTeachers, inputVars, date, absentTeacherNames, day,
                   schedules, availableSubstitutes, workloadMap, assignedPeriodsMap,
                   assignments, error, result, fileVars>>

\* lines 368-414: one period of the teacher being processed
ProcessPeriod ==
    /\ pc = "period"
    /\ LET teacherName == absentTeacherNames[ti]
           p == periods[pi]
           availableForPeriod == AvailableForPeriod(availableSubstitutes, p.period, workloadMap,
                                                    assignedPeriodsMap, day, schedules)
           selected == SelectLeastLoaded(availableForPeriod, workloadMap)
       IN IF Len(availableForPeriod) = 0
          THEN /\ warnings' = Append(warnings, NoSubstituteWarning(teacherName, p.period))
               /\ UNCHANGED <<assignments, workloadMap, assignedPeriodsMap, logs>>
          ELSE /\ assignments' = Append(assignments,
                                        SubstituteAssignment(teacherName, p, selected))
               /\ workloadMap' = Put(workloadMap, selected.phone,
                                     Get(workloadMap, selected.phone, 0) + 1)
               /\ assignedPeriodsMap' =
                     Put(assignedPeriodsMap, selected.phone,
                         Get(assignedPeriodsMap, selected.phone, {}) \cup {p.period})
               /\ logs' = Append(logs, Log("AssignmentMade", "info", ""))
               /\ UNCHANGED warnings
    /\ IF pi < Len(periods)
       THEN /\ pi' = pi + 1
            /\ UNCHANGED <<pc, ti>>
       ELSE /\ pc' = "teacher"
            /\ ti' = ti + 1
            /\ pi' = pi
    /\ UNCHANGED <<loaderVars, callVars, callerVars, env, runsLeft, engineVars, allTeachers, inputVars, date, absentTeacherNames, day,
                   schedules, availableSubstitutes, periods, error, result, fileVars>>

\* lines 417-421 with saveAssignmentsToFile (886-919), whose write may fail
SaveAssignments ==
    /\ pc = "teacher"
    /\ ~MustYield
    /\ ti > Len(absentTeacherNames)
    /\ IF ShouldSave(assignments)
       THEN \E written \in BOOLEAN :
               IF written
               THEN /\ assignmentsFile' = AssignmentsFileContent(assignments)
                    /\ logs' = Append(logs, Log("AssignmentsSaved", "info", ""))
                    /\ pc' = "flush"
                    /\ error' = error
               ELSE /\ error' = "Error saving assignments"
                    /\ pc' = "catch"
                    /\ UNCHANGED <<assignmentsFile, logs>>
       ELSE /\ pc' = "flush"
            /\ UNCHANGED <<assignmentsFile, logs, error>>
    /\ UNCHANGED <<loaderVars, callVars, callerVars, env, runsLeft, engineVars, allTeachers, inputVars, date, absentTeacherNames, day,
                   schedules, availableSubstitutes, workloadMap, assignedPeriodsMap, ti,
                   periods, pi, assignments, warnings, result, logsFile, logsArchive,
                   warningsFile>>

\* lines 423-432: saveLogs, saveWarnings, the last log entry and the return
Complete ==
    /\ pc = "flush"
    /\ logsArchive' = NewLogsArchive(logsArchive, logsFile)
    /\ logsFile' = NewLogsFile(logsFile, logs, date.s)
    /\ warningsFile' = NewWarningsFile(warningsFile, warnings, date.s)
    /\ logs' = Append(logs, Log("ProcessComplete", "info", ""))
    /\ result' = [assignments |-> assignments, warnings |-> warnings, logs |-> logs']
    /\ pc' = "done"
    /\ UNCHANGED <<loaderVars, callVars, callerVars, env, runsLeft, engineVars, allTeachers, inputVars, date, absentTeacherNames, day,
                   schedules, availableSubstitutes, workloadMap, assignedPeriodsMap, ti,
                   periods, pi, assignments, warnings, error, assignmentsFile>>

\* a catch block that returns what the run had accumulated
CatchResult_KeepsAccumulated(as, ws, lg, cause) ==
    [assignments |-> as, warnings |-> Append(ws, ErrorWarning(cause)), logs |-> lg]

\* lines 433-439: the catch block
CatchResult(as, ws, lg, cause) ==
    [assignments |-> <<>>, warnings |-> <<ErrorWarning(cause)>>, logs |-> lg]

Catch ==
    /\ pc = "catch"
    /\ ~MustYield
    /\ logs' = Append(logs, Log("ProcessError", "error", error))
    /\ logsArchive' = NewLogsArchive(logsArchive, logsFile)
    /\ logsFile' = NewLogsFile(logsFile, logs', date.s)
    /\ warningsFile' = NewWarningsFile(warningsFile, <<ErrorWarning(error)>>, date.s)
    /\ result' = CatchResult(assignments, warnings, logs', error)
    /\ pc' = "done"
    /\ UNCHANGED <<loaderVars, callVars, callerVars, env, runsLeft, engineVars, allTeachers, inputVars, date, absentTeacherNames, day,
                   schedules, availableSubstitutes, workloadMap, assignedPeriodsMap, ti,
                   periods, pi, assignments, warnings, error, assignmentsFile>>

Next ==
    \/ LoadData
    \/ StartRun
    \/ GetDay
    \/ LoadFiles
    \/ ProcessTeacher
    \/ ProcessPeriod
    \/ SaveAssignments
    \/ Complete
    \/ Catch

\* one run, over the wide family of inputs
Spec == Init /\ [][Next]_vars

\* a sequence of runs, over the narrow family of inputs
SpecRuns == InitRuns /\ [][Next]_vars

SpecNames == InitNames /\ [][Next]_vars

-----------------------------------------------------------------------------
(* Two invocations that overlap.  An invocation runs without interruption up to   *)
(* its await (line 331) and from there to its return; a second invocation can     *)
(* start while the first waits, and the continuations run in the order in which   *)
(* the invocations reached the await.                                             *)

\* the locals of the invocation that is running, and where it stands
Context(m) ==
    [mode |-> m, pc |-> pc, date |-> date, absentTeacherNames |-> absentTeacherNames,
     day |-> day, schedules |-> schedules, availableSubstitutes |-> availableSubstitutes,
     workloadMap |-> workloadMap, assignedPeriodsMap |-> assignedPeriodsMap, ti |-> ti,
     periods |-> periods, pi |-> pi, logs |-> logs, assignments |-> assignments,
     warnings |-> warnings, error |-> error]

\* lines 302-324 of a second invocation, called while the first is at its await
StartOverlapping ==
    /\ env = "overlap"
    /\ mode = "alone"
    /\ AtAwait
    /\ suspended = <<>>
    /\ runsLeft > 0
    /\ suspended' = <<Context("first")>>
    /\ mode' = "second"
    /\ \E d \in Dates(env), names \in AbsentLists(env) :
          /\ date' = d
          /\ absentTeacherNames' = names
    /\ runsLeft' = runsLeft - 1
    /\ logs' = <<Log("ProcessStart", "info", "")>>
    /\ assignments' = <<>>
    /\ warnings' = <<>>
    /\ day' = <<>>
    /\ schedules' = EmptyMap
    /\ availableSubstitutes' = <<>>
    /\ workloadMap' = EmptyMap
    /\ assignedPeriodsMap' = EmptyMap
    /\ ti' = 0
    /\ periods' = <<>>
    /\ pi' = 0
    /\ error' = ""
    /\ pc' = "getDay"
    /\ UNCHANGED <<loaderVars, callVars, returned, env, engineVars, allTeachers, inputVars,
                   result, fileVars>>

\* line 331: the invocation that waits continues, when the one that is running has
\* returned or has reached its own await after it
Resume ==
    /\ suspended # <<>>
    /\ pc = "done" \/ MustYield
    /\ IF pc = "done"
       THEN suspended' = <<>> /\ returned' = Append(returned, Finished)
       ELSE suspended' = <<Context(mode)>> /\ returned' = returned
    /\ mode' = suspended[1].mode
    /\ pc' = suspended[1].pc
    /\ date' = suspended[1].date
    /\ absentTeacherNames' = suspended[1].absentTeacherNames
    /\ day' = suspended[1].day
    /\ schedules' = suspended[1].schedules
    /\ availableSubstitutes' = suspended[1].availableSubstitutes
    /\ workloadMap' = suspended[1].workloadMap
    /\ assignedPeriodsMap' = suspended[1].assignedPeriodsMap
    /\ ti' = suspended[1].ti
    /\ periods' = suspended[1].periods
    /\ pi' = suspended[1].pi
    /\ logs' = suspended[1].logs
    /\ assignments' = suspended[1].assignments
    /\ warnings' = suspended[1].warnings
    /\ error' = suspended[1].error
    /\ UNCHANGED <<loaderVars, callVars, env, runsLeft, engineVars, allTeachers, inputVars,
                   result, fileVars>>

NextOverlap ==
    \/ LoadData
    \/ StartRun
    \/ StartOverlapping
    \/ Resume
    \/ GetDay
    \/ LoadFiles
    \/ ProcessTeacher
    \/ ProcessPeriod
    \/ SaveAssignments
    \/ Complete
    \/ Catch

InitOverlap == InitWith("overlap", 3)

\* a run alone and two invocations that overlap
SpecOverlap == InitOverlap /\ [][NextOverlap]_vars

InitGrades == InitWith("grades", 2)

\* two runs in a row, with teacher records that differ in the grade level
SpecGrades == InitGrades /\ [][Next]_vars

InitStaff == InitWith("staff", 1)

\* one run, with teachers of the timetable in the substitute pool and the
\* special-cased teacher
SpecStaff == InitStaff /\ [][Next]_vars

-----------------------------------------------------------------------------
(* loadData step by step.  parseTimetable and parseSubstitutes have no         *)
(* statement that throws on a string; the catch blocks of lines 169 and 197    *)
(* are entered when the runtime raises an error during the parse, which may    *)
(* happen after any number of lines has been taken into the maps.              *)

runnerVars == <<env, runsLeft, pc, allTeachers, inputVars, runVars, result, fileVars, callerVars>>

\* a repair that makes loadData write back whatever the repair returns
ContentChanged_Always(fixed, original) == TRUE

\* lines 175 and 203
ContentChanged(fixed, original) == fixed # original

\* lines 157-158: the call; the files are what the environment left on disk
BeginLoad ==
    /\ lpc \in {"idle", "loaded", "failed"}
    /\ loadsLeft > 0
    /\ loadsLeft' = loadsLeft - 1
    /\ \E tt \in TimetableContents \cup {timetableFile},
          ro \in SubstitutesContents \cup {substitutesFile} :
          timetableFile' = tt /\ substitutesFile' = ro
    /\ fixedContent' = <<>>
    /\ lpc' = "parseTimetable"
    /\ parseCalls' = NoParseCalls
    /\ UNCHANGED <<runnerVars, callVars, schedule, teacherClasses, substitutes,
                   timetableBak, substitutesBak>>

\* the maps after a parse that took the first k lines of the content
TimetableParsed(content, k) ==
    parseTimetable(SubSeq(NonBlankLines(content), 1, k), schedule, teacherClasses)

\* lines 161-168: the file is read and parsed
LoadTimetable ==
    /\ lpc = "parseTimetable"
    /\ IF timetableFile = <<>>
       THEN lpc' = "failed" /\ UNCHANGED <<schedule, teacherClasses>>
       ELSE \E thrown \in BOOLEAN, k \in 1..Len(NonBlankLines(timetableFile)) :
               /\ ~thrown => k = Len(NonBlankLines(timetableFile))
               /\ schedule' = TimetableParsed(timetableFile, k).schedule
               /\ teacherClasses' = TimetableParsed(timetableFile, k).teacherClasses
               /\ lpc' = IF thrown THEN "fixTimetable" ELSE "parseSubstitutes"
    /\ parseCalls' = IF timetableFile = <<>> THEN parseCalls
                     ELSE [parseCalls EXCEPT !.timetable = Append(@, timetableFile)]
    /\ UNCHANGED <<runnerVars, callVars, substitutes, timetableFile, loadsLeft,
                   substitutesFile, timetableBak, substitutesBak, fixedContent>>

\* lines 169-175 and 183-185
FixTimetable ==
    /\ lpc = "fixTimetable"
    /\ fixedContent' = fixCSVContent(timetableFile)
    /\ lpc' = IF ContentChanged(fixedContent', timetableFile)
              THEN "backupTimetable" ELSE "failed"
    /\ UNCHANGED <<runnerVars, callVars, engineVars, loadsLeft, substitutesFile,
                   timetableBak, substitutesBak, parseCalls>>

\* lines 176-177
BackupTimetable ==
    /\ lpc = "backupTimetable"
    /\ \E written \in BOOLEAN :
          IF written
          THEN timetableBak' = timetableFile /\ lpc' = "writeTimetable"
          ELSE lpc' = "failed" /\ UNCHANGED timetableBak
    /\ UNCHANGED <<runnerVars, callVars, engineVars, loadsLeft, substitutesFile,
                   substitutesBak, fixedContent, parseCalls>>

\* line 178
WriteTimetable ==
    /\ lpc = "writeTimetable"
    /\ \E written \in BOOLEAN :
          IF written
          THEN timetableFile' = fixedContent /\ lpc' = "retryTimetable"
          ELSE lpc' = "failed" /\ UNCHANGED timetableFile
    /\ UNCHANGED <<runnerVars, callVars, schedule, teacherClasses, substitutes, loadsLeft,
                   substitutesFile, timetableBak, substitutesBak, fixedContent, parseCalls>>

\* line 182
RetryTimetable ==
    /\ lpc = "retryTimetable"
    /\ \E thrown \in BOOLEAN, k \in 1..Len(NonBlankLines(fixedContent)) :
          /\ ~thrown => k = Len(NonBlankLines(fixedContent))
          /\ schedule' = TimetableParsed(fixedContent, k).schedule
          /\ teacherClasses' = TimetableParsed(fixedContent, k).teacherClasses
          /\ lpc' = IF thrown THEN "failed" ELSE "parseSubstitutes"
    /\ parseCalls' = [parseCalls EXCEPT !.timetable = Append(@, fixedContent)]
    /\ UNCHANGED <<runnerVars, callVars, substitutes, timetableFile, loadsLeft,
                   substitutesFile, timetableBak, substitutesBak, fixedContent>>

\* lines 188-196
LoadSubstitutes ==
    /\ lpc = "parseSubstitutes"
    /\ IF substitutesFile = <<>>
       THEN lpc' = "failed" /\ UNCHANGED substitutes
       ELSE \E thrown \in BOOLEAN, k \in 0..Len(substitutesFile) :
               /\ ~thrown => k = Len(substitutesFile)
               /\ substitutes' = parseSubstitutes(SubSeq(substitutesFile, 1, k), substitutes)
               /\ lpc' = IF thrown THEN "fixSubstitutes" ELSE "loaded"
    /\ parseCalls' = IF substitutesFile = <<>> THEN parseCalls
                     ELSE [parseCalls EXCEPT !.substitutes = Append(@, substitutesFile)]
    /\ UNCHANGED <<runnerVars, callVars, schedule, teacherClasses, timetableFile, loadsLeft,
                   substitutesFile, timetableBak, substitutesBak, fixedContent>>

\* lines 197-203 and 211-213
FixSubstitutes ==
    /\ lpc = "fixSubstitutes"
    /\ fixedContent' = fixCSVContent(substitutesFile)
    /\ lpc' = IF ContentChanged(fixedContent', substitutesFile)
              THEN "backupSubstitutes" ELSE "failed"
    /\ UNCHANGED <<runnerVars, callVars, engineVars, loadsLeft, substitutesFile,
                   timetableBak, substitutesBak, parseCalls>>

\* lines 204-205
BackupSubstitutes ==
    /\ lpc = "backupSubstitutes"
    /\ \E written \in BOOLEAN :
          IF written
          THEN substitutesBak' = substitutesFile /\ lpc' = "writeSubstitutes"
          ELSE lpc' = "failed" /\ UNCHANGED substitutesBak
    /\ UNCHANGED <<runnerVars, callVars, engineVars, loadsLeft, substitutesFile,
                   timetableBak, fixedContent, parseCalls>>

\* line 206
WriteSubstitutes ==
    /\ lpc = "writeSubstitutes"
    /\ \E written \in BOOLEAN :
          IF written
          THEN substitutesFile' = fixedContent /\ lpc' = "retrySubstitutes"
          ELSE lpc' = "failed" /\ UNCHANGED substitutesFile
    /\ UNCHANGED <<runnerVars, callVars, engineVars, loadsLeft, timetableBak,
                   substitutesBak, fixedContent, parseCalls>>

\* line 210
RetrySubstitutes ==
    /\ lpc = "retrySubstitutes"
    /\ \E thrown \in BOOLEAN, k \in 0..Len(fixedContent) :
          /\ ~thrown => k = Len(fixedContent)
          /\ substitutes' = parseSubstitutes(SubSeq(fixedContent, 1, k), substitutes)
          /\ lpc' = IF thrown THEN "failed" ELSE "loaded"
    /\ parseCalls' = [parseCalls EXCEPT !.substitutes = Append(@, fixedContent)]
    /\ UNCHANGED <<runnerVars, callVars, schedule, teacherClasses, timetableFile, loadsLeft,
                   substitutesFile, timetableBak, substitutesBak, fixedContent>>

NextLoad ==
    \/ BeginLoad
    \/ LoadTimetable
    \/ FixTimetable
    \/ BackupTimetable
    \/ WriteTimetable
    \/ RetryTimetable
    \/ LoadSubstitutes
    \/ FixSubstitutes
    \/ BackupSubstitutes
    \/ WriteSubstitutes
    \/ RetrySubstitutes

InitLoad == InitWith("load", 0)

SpecLoad == InitLoad /\ [][NextLoad]_vars

-----------------------------------------------------------------------------
(* Calls of the pure functions *)

CallFixCSVContent ==
    /\ input.fn = "fixCSVContent"
    /\ ~output.returned
    /\ output' = [returned |-> TRUE, content |-> fixCSVContent(input.content), name |-> <<>>]
    /\ UNCHANGED <<runnerVars, engineVars, loaderVars, input>>

CallNormalizeName ==
    /\ input.fn = "normalizeName"
    /\ ~output.returned
    /\ output' = [returned |-> TRUE, content |-> <<>>, name |-> normalizeName(input.name)]
    /\ UNCHANGED <<runnerVars, engineVars, loaderVars, input>>

NextCalls == CallFixCSVContent \/ CallNormalizeName

InitCalls == InitWith("call", 0)

SpecCalls == InitCalls /\ [][NextCalls]_vars


-----------------------------------------------------------------------------
(* Properties *)

Indexes(seq) == 1..Len(seq)
Last(seq) == seq[Len(seq)]

SamePeriodSameSubstitute(as) ==
    \E i, j \in Indexes(as) :
        i # j /\ as[i].period = as[j].period /\ as[i].substitute = as[j].substitute

SamePeriodSamePhone(as) ==
    \E i, j \in Indexes(as) :
        i # j /\ as[i].period = as[j].period /\ as[i].substitutePhone = as[j].substitutePhone

\* C1, as stated: in the result of a run no two assignments have the same period
\* and the same substitute (the name in the substitute field).
C1_NoSamePeriodSameSubstitute == ~SamePeriodSameSubstitute(result.assignments)

\* C1, amended: at every point of a run and in its result, no two assignments have
\* the same period and the same substitutePhone, the key under which the run
\* tracks a substitute.
C1_NoSamePeriodSamePhone ==
    ~SamePeriodSamePhone(assignments) /\ ~SamePeriodSamePhone(result.assignments)

\* a result with two assignments in one period, given to substitutes with two phones
C1_Witness ==
    /\ pc = "done"
    /\ \E i, j \in Indexes(result.assignments) :
          /\ i # j
          /\ result.assignments[i].period = result.assignments[j].period
          /\ result.assignments[i].substitutePhone # result.assignments[j].substitutePhone

CountBySubstitute(as, name) == Cardinality({i \in Indexes(as) : as[i].substitute = name})
CountByPhone(as, phone) == Cardinality({i \in Indexes(as) : as[i].substitutePhone = phone})

\* C2, as stated with a substitute taken by the substitute field: at every point of a
\* run the assignments recorded for one substitute do not exceed MAX_DAILY_WORKLOAD.
C2_PerSubstituteWithinCap ==
    \A i \in Indexes(assignments) :
        CountBySubstitute(assignments, assignments[i].substitute) <= MAX_DAILY_WORKLOAD

\* C2, amended: at every point of a run and in its result, the assignments recorded
\* for one substitutePhone do not exceed MAX_DAILY_WORKLOAD, and the workload counter
\* of a phone is the number of its assignments.
C2_PerPhoneWithinCap ==
    /\ \A i \in Indexes(assignments) :
          /\ CountByPhone(assignments, assignments[i].substitutePhone) <= MAX_DAILY_WORKLOAD
          /\ Get(workloadMap, assignments[i].substitutePhone, 0)
                = CountByPhone(assignments, assignments[i].substitutePhone)
    /\ \A i \in Indexes(result.assignments) :
          CountByPhone(result.assignments, result.assignments[i].substitutePhone)
             <= MAX_DAILY_WORKLOAD

\* a substitute at the cap, free by its schedule, and a period left uncovered
C2_Witness ==
    /\ pc = "done"
    /\ schedulesFile.status = "missing"
    /\ \E i \in Indexes(assignments) :
          CountByPhone(assignments, assignments[i].substitutePhone) = MAX_DAILY_WORKLOAD
    /\ \E w \in Indexes(warnings) :
          /\ warnings[w].kind = "NoSubstitute"
          /\ \A i \in Indexes(assignments) : assignments[i].period # warnings[w].period

\* C3: a run that throws ends in the catch block, which appends an error-status log
\* entry, writes the logs and the warnings of the date, and returns no assignment
\* and the error message as the only warning; the run always returns.
C3_ErrorRunResult ==
    error # "" =>
       \/ pc = "catch"
       \/ /\ pc \in {"done", "idle"}
          /\ result.assignments = <<>>
          /\ result.warnings = <<ErrorWarning(error)>>
          /\ Last(result.logs) = Log("ProcessError", "error", error)
          /\ date.s \in DOMAIN logsFile
          /\ logsFile[date.s] = result.logs
          /\ date.s \in DOMAIN warningsFile
          /\ warningsFile[date.s] = <<ErrorWarning(error)>>

\* a run that failed while saving, after it had accumulated assignments and warnings
C3_Witness ==
    /\ pc = "done"
    /\ error = "Error saving assignments"
    /\ assignments # <<>>
    /\ warnings # <<>>

WorkloadOf(sub) == Get(workloadMap, sub.phone, 0)

\* the substitutes that pass the filter of lines 370-381 in the current state
EligibleNow(period) ==
    {k \in Indexes(availableSubstitutes) :
        /\ period \notin Get(assignedPeriodsMap, availableSubstitutes[k].phone, {})
        /\ WorkloadOf(availableSubstitutes[k]) < MAX_DAILY_WORKLOAD
        /\ checkAvailability(availableSubstitutes[k], period, day, schedules)}

\* C4: when a period has eligible substitutes, the one selected has the least
\* run-workload of them and is the first of those in the order of the pool.
C4_LeastLoadedFirst ==
    [][(pc = "period" /\ EligibleNow(periods[pi].period) # {}) =>
          LET el == EligibleNow(periods[pi].period)
              best == CHOOSE k \in el :
                         \A j \in el :
                            \/ WorkloadOf(availableSubstitutes[j]) > WorkloadOf(availableSubstitutes[k])
                            \/ /\ WorkloadOf(availableSubstitutes[j]) = WorkloadOf(availableSubstitutes[k])
                               /\ j >= k
          IN /\ Len(assignments') = Len(assignments) + 1
             /\ Last(assignments').substitute = availableSubstitutes[best].name
             /\ Last(assignments').substitutePhone = availableSubstitutes[best].phone]_vars

\* the second substitute of the pool selected while the first one, more loaded, was eligible
C4_Witness ==
    /\ Len(availableSubstitutes) = 2
    /\ schedulesFile.status = "missing"
    /\ Len(assignments) = 2
    /\ assignments[1].substitutePhone = availableSubstitutes[1].phone
    /\ assignments[2].substitutePhone = availableSubstitutes[2].phone
    /\ availableSubstitutes[1].phone # availableSubstitutes[2].phone
    /\ assignments[1].period # assignments[2].period


\* the periods the resolver gives for the i-th absent teacher of the run
ResolvedFor(i) ==
    getAllPeriodsForTeacherWithDiagnostics(Trim(ToLowerCase(absentTeacherNames[i])), day,
                                           schedules, teacherClasses, allTeachers).periods

EntriesWithPeriod(i, p) == {k \in Indexes(ResolvedFor(i)) : ResolvedFor(i)[k].period = p}

RECURSIVE ResolvedBefore(_)
ResolvedBefore(i) == IF i <= 1 THEN 0 ELSE Len(ResolvedFor(i - 1)) + ResolvedBefore(i - 1)

\* the substitutes of the pool with no declared class in the period
FreeBySchedule(p) ==
    {k \in Indexes(availableSubstitutes) :
        checkAvailability(availableSubstitutes[k], p, day, schedules)}

\* absent teachers i and j, i listed first, each with one class in period p, nobody
\* else with one; one substitute eligible for p, its workload below the cap when the
\* period of i is reached
C5_Case(p, i, j) ==
    /\ i < j
    /\ Cardinality(EntriesWithPeriod(i, p)) = 1
    /\ Cardinality(EntriesWithPeriod(j, p)) = 1
    /\ \A x \in Indexes(absentTeacherNames) \ {i, j} : EntriesWithPeriod(x, p) = {}
    /\ Cardinality(FreeBySchedule(p)) = 1
    /\ ResolvedBefore(i) + (CHOOSE k \in EntriesWithPeriod(i, p) : TRUE) - 1 < MAX_DAILY_WORKLOAD

C5_Outcome(p, i, j) ==
    LET sub == availableSubstitutes[CHOOSE k \in FreeBySchedule(p) : TRUE]
        covered == {a \in Indexes(result.assignments) : result.assignments[a].period = p}
        uncovered == {w \in Indexes(result.warnings) :
                         /\ result.warnings[w].kind = "NoSubstitute"
                         /\ result.warnings[w].period = p}
    IN /\ Cardinality(covered) = 1
       /\ \A a \in covered :
             /\ result.assignments[a].originalTeacher = absentTeacherNames[i]
             /\ result.assignments[a].substitute = sub.name
             /\ result.assignments[a].substitutePhone = sub.phone
       /\ Cardinality(uncovered) = 1
       /\ \A w \in uncovered : result.warnings[w].teacher = absentTeacherNames[j]

\* C5: two absent teachers with a class in the same period and one eligible
\* substitute: the period of the teacher listed first gets the one assignment of
\* that period, the other gets one 'No available substitutes' warning.
C5_OneCoveredOneWarned ==
    (pc = "done" /\ error = "") =>
        \A i, j \in Indexes(absentTeacherNames) :
            \A k \in Indexes(ResolvedFor(i)) :
                C5_Case(ResolvedFor(i)[k].period, i, j)
                   => C5_Outcome(ResolvedFor(i)[k].period, i, j)

\* the case with two different teachers
C5_Witness ==
    /\ pc = "done"
    /\ error = ""
    /\ \E i, j \in Indexes(absentTeacherNames) :
          /\ absentTeacherNames[i] # absentTeacherNames[j]
          /\ \E k \in Indexes(ResolvedFor(i)) : C5_Case(ResolvedFor(i)[k].period, i, j)
          /\ Len(availableSubstitutes) > 1

\* the timetable is the header and one row, of the weekday of the run and period 1,
\* with Smith in the first class column; the directory lists Doe with 555-1111 alone;
\* there are no declared schedules; Smith alone is absent
C6_Scenario ==
    /\ Len(timetableFile) = 2
    /\ normalizeDay(timetableFile[2][1]) = day
    /\ ~ParseIntIsNaN(Trim(timetableFile[2][2]))
    /\ ParseInt(Trim(timetableFile[2][2])) = 1
    /\ timetableFile[2][3] = Smith
    /\ teachersFile = [status |-> "ok", teachers |-> <<TeacherRecord(Doe, Phone1)>>]
    /\ schedulesFile.map = EmptyMap
    /\ absentTeacherNames = <<Smith>>

C7_NoEligibleSubstitute ==
    [][(pc = "period" /\ EligibleNow(periods[pi].period) = {}) =>
          /\ assignments' = assignments
          /\ warnings' = Append(warnings,
                                Warning("NoSubstitute", absentTeacherNames[ti], <<>>,
                                        periods[pi].period, ""))
          /\ workloadMap' = workloadMap
          /\ assignedPeriodsMap' = assignedPeriodsMap
          /\ error' = error
          /\ IF pi < Len(periods)
             THEN pc' = "period" /\ pi' = pi + 1 /\ ti' = ti
             ELSE pc' = "teacher" /\ ti' = ti + 1]_vars

\* a period left uncovered and a later period of the same teacher covered
C7_Witness ==
    /\ pc = "done"
    /\ error = ""
    /\ Len(absentTeacherNames) = 1
    /\ \E w \in Indexes(warnings), a \in Indexes(assignments) :
          /\ warnings[w].kind = "NoSubstitute"
          /\ warnings[w].period < assignments[a].period

\* C8: when the resolver gives no period for an absent teacher, the step appends the
\* one warning for that teacher, records no assignment, raises no error and moves to
\* the next absent teacher.
C8_NoPeriodsResolved ==
    [][(pc = "teacher" /\ ti <= Len(absentTeacherNames) /\ ResolvedFor(ti) = <<>>) =>
          /\ warnings' = Append(warnings,
                                Warning("NoPeriods", absentTeacherNames[ti], day, 0, ""))
          /\ assignments' = assignments
          /\ error' = error
          /\ pc' = "teacher"
          /\ ti' = ti + 1]_vars

\* a teacher without periods, followed by a teacher who is covered
C8_Witness ==
    /\ pc = "done"
    /\ error = ""
    /\ Len(absentTeacherNames) = 2
    /\ Len(warnings) = 1
    /\ warnings[1] = Warning("NoPeriods", absentTeacherNames[1], day, 0, "")
    /\ \E a \in Indexes(assignments) : assignments[a].originalTeacher = absentTeacherNames[2]

\* C9: the assignments file changes only in the save of a run that has at least one
\* assignment, to the list of that run, and such a run then completes and returns
\* that list; a run with no assignment or one that ends in the catch block leaves
\* the file as it was.
C9_AssignmentsFile ==
    [][/\ assignmentsFile' # assignmentsFile =>
             /\ pc = "teacher"
             /\ pc' = "flush"
             /\ assignments # <<>>
             /\ assignmentsFile' = assignments
       /\ (pc = "teacher" /\ pc' = "flush" /\ assignments # <<>>) =>
             assignmentsFile' = assignments
       /\ pc = "flush" =>
             (pc' = "done" /\ error' = "" /\ result'.assignments = assignments)
       /\ (pc' = "done" /\ pc # "done" /\ error' = "" /\ result'.assignments # <<>>) =>
             assignmentsFile' = result'.assignments
       /\ (pc' = "done" /\ pc # "done" /\ (error' # "" \/ result'.assignments = <<>>)) =>
             assignmentsFile' = assignmentsFile]_vars

\* a later run without assignments, the file still holding the list of an earlier run
C9_Witness ==
    /\ pc = "done"
    /\ runsLeft < MaxRuns - 1
    /\ result.assignments = <<>>
    /\ assignmentsFile # <<>>

\* the logs persisted by the run that returns in this step
SavedLogsOfRun == IF error' = "" THEN logs ELSE logs'

\* C10, as stated: a run leaves the entries of the other dates in the logs file and
\* sets the entry of its own date.
C10_LogsOfOtherDatesKept ==
    [][(pc' = "done" /\ pc # "done") =>
          /\ date.s \in DOMAIN logsFile'
          /\ logsFile'[date.s] = SavedLogsOfRun
          /\ \A d \in DOMAIN logsFile \ {date.s} :
                d \in DOMAIN logsFile' /\ logsFile'[d] = logsFile[d]]_vars

\* C10, amended: after a run the logs file holds the entry of the date of that run
\* and nothing else; the content the file had before, of another date or of the
\* same, has gone to the archive file.
C10_LogsOfLastRunOnly ==
    [][(pc' = "done" /\ pc # "done") =>
          /\ DOMAIN logsFile' = {date.s}
          /\ logsFile'[date.s] = SavedLogsOfRun
          /\ DOMAIN logsFile # {} => logsArchive' = logsFile]_vars

\* a run after a run for another date: the entry of the other date is in the archive
C10_Witness ==
    /\ pc = "done"
    /\ DOMAIN logsFile = {date.s}
    /\ DOMAIN logsArchive # {}
    /\ date.s \notin DOMAIN logsArchive


\* C11: a run sets the entry of its date in the warnings file to the warnings it
\* returns and leaves the entry of every other date as it was, so that runs for two
\* dates leave both lists in the file and a second run for a date leaves the later
\* list alone for that date.
C11_WarningsFileMerged ==
    [][(pc' = "done" /\ pc # "done") =>
          /\ DOMAIN warningsFile' = DOMAIN warningsFile \cup {date.s}
          /\ warningsFile'[date.s] = result'.warnings
          /\ \A d \in DOMAIN warningsFile \ {date.s} : warningsFile'[d] = warningsFile[d]]_vars

\* two runs for two dates, the entry of the earlier date being other than the later
C11_Witness ==
    /\ pc = "done"
    /\ \E d \in DOMAIN warningsFile :
          /\ d # date.s
          /\ warningsFile[d] # warningsFile[date.s]
          /\ warningsFile[date.s] = result.warnings


\* C12: after a run, the 'Substitute Assignment Limits' report is FAIL exactly when
\* some substitute has more than 3 assignments in the result of the run.
C12_LimitsReportFollowsRun ==
    (pc = "done" /\ error = "") =>
        (verifySubstituteLimits.status = "FAIL"
           <=> \E i \in Indexes(result.assignments) :
                  CountByPhone(result.assignments, result.assignments[i].substitutePhone)
                     > MAX_SUBSTITUTE_ASSIGNMENTS)


\* the cells of the class columns of the loaded timetable that name a teacher
TeacherCells ==
    {rk \in (2..Len(timetableFile)) \X (1..Len(classes)) :
        /\ Len(timetableFile[rk[1]]) >= rk[2] + 2
        /\ ~ParseIntIsNaN(Trim(timetableFile[rk[1]][2]))
        /\ timetableFile[rk[1]][rk[2] + 2] # <<>>
        /\ ToLowerCase(Trim(timetableFile[rk[1]][rk[2] + 2])) # EmptyCell}

\* C16: for every cell of a class column that names a teacher, the teacher has an
\* entry of the day and period of the row whose className is the class of that
\* column, whatever the cells to the left of it hold.
C16_ClassOfTheColumn ==
    \A rk \in TeacherCells :
        LET row == timetableFile[rk[1]]
            entries == Get(teacherClasses, normalizeName(row[rk[2] + 2]), <<>>)
        IN \E i \in Indexes(entries) :
              /\ entries[i].day = normalizeDay(row[1])
              /\ entries[i].period = ParseInt(Trim(row[2]))
              /\ entries[i].className = classes[rk[2]]

\* the resolution of the i-th absent teacher of the run
ResolutionFor(i) ==
    getAllPeriodsForTeacherWithDiagnostics(Trim(ToLowerCase(absentTeacherNames[i])), day,
                                           schedules, teacherClasses, allTeachers)

SameKey(p, q) == p.period = q.period /\ p.className = q.className

\* the positions in the merged list of the entries with the key of p
WithKeyOf(ps, p) == {k \in Indexes(ps) : SameKey(ps[k], p)}

Min(S) == CHOOSE x \in S : \A y \in S : x <= y
Max(S) == CHOOSE x \in S : \A y \in S : x >= y

OnePerKey(ps) == \A i, j \in Indexes(ps) : SameKey(ps[i], ps[j]) => i = j

\* C17, as stated: the entry output for a key is the one of the latest source in
\* merge order, or the first special one if there is one; one entry per key.
C17_LatestSourceWins ==
    (pc = "period") =>
        LET merged == ResolutionFor(ti).validPeriods
        IN /\ OnePerKey(periods)
           /\ \A i \in Indexes(periods) :
                 LET same == WithKeyOf(merged, periods[i])
                     special == {k \in same : IsSpecial(merged[k].source)}
                 IN same # {} =>
                       periods[i] = merged[IF special # {} THEN Min(special) ELSE Max(same)]

\* C17, amended: the entry output for a key is the one of the earliest source in
\* merge order that has the key; every key of the merged list is output once; no
\* entry tagged special is in a merged list.
C17_EarliestSourceWins ==
    (pc = "period" /\ ResolutionFor(ti).validPeriods # <<>>) =>
        LET merged == ResolutionFor(ti).validPeriods
        IN /\ OnePerKey(periods)
           /\ \A k \in Indexes(merged) :
                 /\ ~IsSpecial(merged[k].source)
                 /\ \E i \in Indexes(periods) : SameKey(periods[i], merged[k])
           /\ \A i \in Indexes(periods) :
                 /\ WithKeyOf(merged, periods[i]) # {}
                 /\ periods[i] = merged[Min(WithKeyOf(merged, periods[i]))]

\* a key held by the class map and the declared schedule, and one held by the
\* declared schedule and an alias
C17_Witness ==
    /\ pc = "period"
    /\ LET merged == ResolutionFor(ti).validPeriods
       IN /\ \E j, k \in Indexes(merged) :
                /\ j < k /\ SameKey(merged[j], merged[k])
                /\ merged[j].source = "classMap" /\ merged[k].source = "schedule"
          /\ \E j, k \in Indexes(merged) :
                /\ j < k /\ SameKey(merged[j], merged[k])
                /\ merged[j].source = "schedule" /\ merged[k].source = "variation"

\* C18: two absent names with the same normalized form resolve to the same periods.
C18_SameNormalizedSamePeriods ==
    (pc = "done" /\ error = "") =>
        \A i, j \in Indexes(absentTeacherNames) :
            normalizeName(absentTeacherNames[i]) = normalizeName(absentTeacherNames[j])
               => ResolvedFor(i) = ResolvedFor(j)

\* C20: no assignment has a substitute with an entry of the declared schedules, under
\* the normalized name of the substitute, on the day of the run and the period of
\* the assignment.
C20_NoDeclaredConflict ==
    \A a \in Indexes(assignments) :
        LET declared == Get(schedules, normalizeName(assignments[a].substitute), <<>>)
        IN ~\E k \in Indexes(declared) :
              /\ ToLowerCase(declared[k].day) = day
              /\ declared[k].period = assignments[a].period


-----------------------------------------------------------------------------
(* Tabular repair and name normalisation as functions *)

EvenQuotes(line) == QuoteCount(line) % 2 = 0

\* a timetable whose header and rows all have 17 fields and balanced quotes
WellFormedTimetable(content) ==
    /\ content # <<>>
    /\ StartsWithDayPeriod(content[1])
    /\ \A i \in 1..Len(content) : Len(content[i]) = 17 /\ EvenQuotes(content[i])

\* a roster whose lines all have 3 fields and balanced quotes
WellFormedRoster(content) ==
    \A i \in 1..Len(content) : Len(content[i]) = 3 /\ EvenQuotes(content[i])

\* C13: fixCSVContent returns a well-formed timetable or a well-formed roster
\* unchanged.
C13_WellFormedUnchanged ==
    (/\ input.fn = "fixCSVContent"
     /\ output.returned
     /\ WellFormedTimetable(input.content) \/ WellFormedRoster(input.content))
    => output.content = input.content

\* C15: normalizeName applied to a value that normalizeName returned gives
\* that value again.
C15_NormalizeNameIdempotent ==
    (input.fn = "normalizeName" /\ output.returned)
    => /\ output.name = normalizeName(input.name)
       /\ normalizeName(output.name) = output.name

\* a name with outer blanks, a run of mixed whitespace and a capital has been
\* normalised
C15_Witness ==
    /\ input.fn = "normalizeName"
    /\ output.returned
    /\ input.name = <<" ", "a", "\t", " ", "B">>
    /\ output.name = <<"a", " ", "b">>

-----------------------------------------------------------------------------
(* Loading *)

Loading == lpc \notin {"idle", "loaded", "failed"}

\* the parse calls of one file in one load: the content read, then at most the
\* repaired content, which differs from it
OriginalThenRepaired(calls) ==
    /\ Len(calls) <= 2
    /\ Len(calls) = 2 => calls[2] = fixCSVContent(calls[1]) /\ calls[2] # calls[1]

\* C14: a step of loadData that replaces a source file puts the repaired
\* content there while the .bak sibling holds the content replaced, and each
\* file is parsed at most twice in a load: as read, and as repaired when the
\* repair changed it.
C14_BackupThenOneRetry ==
    [][/\ (Loading /\ timetableFile' # timetableFile)
           => timetableBak = timetableFile /\ timetableFile' = fixCSVContent(timetableFile)
       /\ (Loading /\ substitutesFile' # substitutesFile)
           => substitutesBak = substitutesFile
              /\ substitutesFile' = fixCSVContent(substitutesFile)
       /\ OriginalThenRepaired(parseCalls'.timetable)
       /\ OriginalThenRepaired(parseCalls'.substitutes)]_vars

\* a load has ended well after the timetable was repaired, backed up and
\* parsed a second time
C14_Witness ==
    /\ lpc = "loaded"
    /\ Len(parseCalls.timetable) = 2
    /\ timetableBak = parseCalls.timetable[1]
    /\ timetableFile = parseCalls.timetable[2]
    /\ timetableFile # timetableBak

\* C19: after a load the three maps are what one load of the current files
\* into a fresh engine gives.
C19_RebuiltFromScratch ==
    lpc = "loaded"
    => LET fresh == parseTimetable(NonBlankLines(timetableFile), EmptyMap, EmptyMap)
       IN /\ schedule = fresh.schedule
          /\ teacherClasses = fresh.teacherClasses
          /\ substitutes = parseSubstitutes(substitutesFile, EmptyMap)

-----------------------------------------------------------------------------
(* Outcomes of a run *)

\* C26: no two assignments of a run cover the same class of the same absent teacher
\* in the same period.
C26_OneAssignmentPerClass ==
    \A a, b \in Indexes(assignments) :
        (/\ assignments[a].originalTeacher = assignments[b].originalTeacher
         /\ assignments[a].period = assignments[b].period
         /\ assignments[a].className = assignments[b].className) => a = b

NoSubstituteWarnings(ws) == {w \in Indexes(ws) : ws[w].kind = "NoSubstitute"}

Unresolved == {i \in Indexes(absentTeacherNames) : ResolvedFor(i) = <<>>}

\* C27: in the result of a run that ends without an error, the assignments and the
\* warnings of uncovered periods together are as many as the periods resolved for
\* the absent teachers, and the warnings are those plus one for each absent teacher
\* without a period.
C27_OneOutcomePerPeriod ==
    (pc = "done" /\ error = "") =>
        /\ Len(result.assignments) + Cardinality(NoSubstituteWarnings(result.warnings))
              = ResolvedBefore(Len(absentTeacherNames) + 1)
        /\ Len(result.warnings)
              = Cardinality(NoSubstituteWarnings(result.warnings)) + Cardinality(Unresolved)

\* a run with an assignment, an uncovered period and a teacher without periods
C27_Witness ==
    /\ pc = "done"
    /\ error = ""
    /\ Len(result.assignments) > 0
    /\ NoSubstituteWarnings(result.warnings) # {}
    /\ Unresolved # {}

\* C28: after a run the logs file holds, under the date of the run, the log
\* sequence the run returned.
C28_PersistedLogsAreReturnedLogs ==
    (pc = "done") => Get(logsFile, date.s, <<>>) = result.logs

\* C30: fixCSVContent applied to a text that fixCSVContent returned gives that text
\* again.
C30_FixCSVContentIdempotent ==
    (input.fn = "fixCSVContent" /\ output.returned)
    => fixCSVContent(output.content) = output.content

-----------------------------------------------------------------------------
(* Aliases *)

Keys(ps) == {<<ps[k].period, ps[k].className>> : k \in Indexes(ps)}

\* the name is a declared variation of a teacher record with the canonical name
VariationOf(alias, canonical) ==
    \E t \in Indexes(allTeachers) :
        /\ allTeachers[t].name = canonical
        /\ \E v \in Indexes(allTeachers[t].variations) : allTeachers[t].variations[v] = alias

\* C29: an absent teacher listed under a declared variation of the name resolves to
\* the same (period, className) pairs as the teacher listed under the canonical name.
C29_AliasResolvesAsCanonical ==
    (pc = "done" /\ error = "") =>
        \A i, j \in Indexes(absentTeacherNames) :
            VariationOf(absentTeacherNames[j], absentTeacherNames[i])
               => Keys(ResolvedFor(j)) = Keys(ResolvedFor(i))

-----------------------------------------------------------------------------
(* The special case *)

IsSpecialTeacher(name) ==
    Includes(Trim(ToLowerCase(name)), <<"m","u","s","h","t","a","q","u","e">>)
    \/ Includes(Trim(ToLowerCase(name)), <<"m","u","s","h","t","a","q">>)

FixedPeriods ==
    << [period |-> 1, className |-> <<"1","0","B">>, source |-> "special:timetable"],
       [period |-> 2, className |-> <<"1","0","B">>, source |-> "special:timetable"],
       [period |-> 8, className |-> <<"1","0","A">>, source |-> "special:timetable"] >>

\* the (period, className) pairs that the class map, the declared schedule and the
\* schedules of the variations hold for the name on the day of the run
OrdinaryKeys(name) ==
    LET clean == Trim(ToLowerCase(name))
        ofClasses == Get(teacherClasses, clean, <<>>)
        Declared(n) ==
            LET es == Get(schedules, n, <<>>)
            IN {<<es[k].period, ToUpperCase(Trim(es[k].className))>> :
                   k \in {x \in Indexes(es) : ToLowerCase(es[x].day) = day}}
        record == findTeacherByName(name, allTeachers)
    IN {<<ofClasses[k].period, ofClasses[k].className>> :
           k \in {x \in Indexes(ofClasses) : ToLowerCase(ofClasses[x].day) = day}}
       \cup Declared(clean)
       \cup (IF record = <<>> THEN {}
             ELSE UNION {Declared(Trim(ToLowerCase(record[1].variations[v]))) :
                            v \in Indexes(record[1].variations)})

\* C21: for an absent teacher with the special-cased name the run takes, on a
\* Tuesday, the three fixed periods tagged special and nothing else; on another day
\* it takes the periods of the ordinary sources, none tagged special, and warns when
\* these have none.
C21_SpecialCaseOnTuesdayOnly ==
    [][(pc = "teacher" /\ ti <= Len(absentTeacherNames)
        /\ IsSpecialTeacher(absentTeacherNames[ti])) =>
          IF day = <<"t","u","e","s","d","a","y">>
          THEN pc' = "period" /\ periods' = FixedPeriods
          ELSE IF OrdinaryKeys(absentTeacherNames[ti]) = {}
               THEN /\ pc' = "teacher"
                    /\ warnings' = Append(warnings,
                                          Warning("NoPeriods", absentTeacherNames[ti], day, 0, ""))
               ELSE /\ pc' = "period"
                    /\ Keys(periods') = OrdinaryKeys(absentTeacherNames[ti])
                    /\ \A k \in Indexes(periods') : periods'[k].source # "special:timetable"
      ]_vars

\* on a Tuesday the fixed periods have been taken for the special-cased teacher, whose
\* timetable class and declared entries of the day are other periods
C21_Witness ==
    /\ pc = "period"
    /\ day = <<"t","u","e","s","d","a","y">>
    /\ IsSpecialTeacher(absentTeacherNames[ti])
    /\ periods = FixedPeriods
    /\ Cardinality(OrdinaryKeys(absentTeacherNames[ti])) = 3
    /\ OrdinaryKeys(absentTeacherNames[ti]) \cap Keys(FixedPeriods) = {}

\* C24: no assignment of a run has a substitute who is named in the absent list of
\* the run.
C24_AbsentTeacherNotSubstitute ==
    \A a \in Indexes(assignments), i \in Indexes(absentTeacherNames) :
        normalizeName(assignments[a].substitute) # normalizeName(absentTeacherNames[i])

\* C25: no assignment of a run has a substitute whom the timetable lists as teaching
\* on the day of the run in the period of the assignment.
C25_SubstituteNotTeaching ==
    \A a \in Indexes(assignments) :
        LET teaching == Get(Get(schedule, day, EmptyMap), assignments[a].period, <<>>)
        IN \A k \in Indexes(teaching) : teaching[k] # normalizeName(assignments[a].substitute)

-----------------------------------------------------------------------------
(* Grade levels *)

EraseGrades(teachers) == [i \in Indexes(teachers) |-> [teachers[i] EXCEPT !.gradeLevel = 0]]

\* the run that has ended and an earlier run had the same parameters, read the same
\* files but for the grade levels, on the same loaded timetable, and met the same error
\* or none
SameButGrades(r) ==
    /\ r.date = date
    /\ r.absentTeacherNames = absentTeacherNames
    /\ r.schedules = schedulesFile
    /\ r.teacherClasses = teacherClasses
    /\ r.error = error
    /\ EraseGrades(r.teachers) = EraseGrades(teachersFile.teachers)

\* C22: a run returns the assignments and the warnings of every earlier run that
\* differed from it in the grade levels of the teacher records only.
C22_GradeLevelIgnored ==
    (pc = "done") =>
        \A k \in Indexes(returned) :
            SameButGrades(returned[k])
               => /\ returned[k].result.assignments = result.assignments
                  /\ returned[k].result.warnings = result.warnings

\* two runs with assignments whose teacher records differ in a grade level
C22_Witness ==
    /\ pc = "done"
    /\ result.assignments # <<>>
    /\ \E k \in Indexes(returned) :
          /\ SameButGrades(returned[k])
          /\ returned[k].teachers # teachersFile.teachers

-----------------------------------------------------------------------------
(* Overlapping invocations *)

Overlapped(m) == m \in {"first", "second"}

\* an earlier run alone had the parameters of the invocation that has returned, on the
\* same loaded timetable and files, and met the same error or none
SameAlone(r) ==
    /\ r.mode = "alone"
    /\ r.date = date
    /\ r.absentTeacherNames = absentTeacherNames
    /\ r.teachers = teachersFile.teachers
    /\ r.schedules = schedulesFile
    /\ r.teacherClasses = teacherClasses
    /\ r.error = error

\* each of two overlapping invocations returns the assignments of the run alone
ReturnsAsAlone ==
    (pc = "done" /\ Overlapped(mode)) =>
        \A k \in Indexes(returned) :
            SameAlone(returned[k]) => returned[k].result.assignments = result.assignments

\* the two overlapping invocations have returned, the one that is running last
BothReturned ==
    /\ pc = "done"
    /\ suspended = <<>>
    /\ Overlapped(mode)
    /\ returned # <<>>
    /\ Overlapped(Last(returned).mode)
    /\ Last(returned).mode # mode

\* the list of the last of the invocations to return with an assignment, or none
RECURSIVE LastSaved(_)
LastSaved(rs) ==
    IF rs = <<>> THEN <<>>
    ELSE IF Last(rs).result.assignments # <<>> THEN Last(rs).result.assignments
         ELSE LastSaved(SubSeq(rs, 1, Len(rs) - 1))

\* C23, as stated: each of two overlapping invocations returns the assignments of
\* the run alone, and when both have returned the assignments file holds the list
\* that one of the two returned.
C23_FileOfOneOfTheTwo ==
    /\ ReturnsAsAlone
    /\ BothReturned =>
          \/ assignmentsFile = result.assignments
          \/ assignmentsFile = Last(returned).result.assignments

\* C23, amended: each of two overlapping invocations returns the assignments of the
\* run alone, and when both have returned the assignments file holds the list of
\* the last of the two to return with an assignment, whole and alone; when neither
\* returned an assignment the file is as the invocations before the two left it.
C23_FileOfLastToSave ==
    /\ ReturnsAsAlone
    /\ BothReturned =>
          assignmentsFile =
             IF result.assignments # <<>> THEN result.assignments
             ELSE LastSaved(returned)

\* two overlapping invocations have returned different lists with an assignment
\* each, and the second had run alone before
C23_Witness ==
    /\ BothReturned
    /\ result.assignments # <<>>
    /\ Last(returned).result.assignments # <<>>
    /\ Last(returned).result.assignments # result.assignments
    /\ \E k \in Indexes(returned) : SameAlone(returned[k])

====
